---------------------------- MODULE Spec2Model ----------------------------
(***************************************************************************)
(* A model of export-grafana-dashboards.py (class GrafanaExporter).        *)
(*                                                                         *)
(* Text is modelled as a sequence of one-character strings, so that        *)
(* safe_filename and the path f"{safe_title}_{uid}.json" are computed      *)
(* character by character, as the code computes them.                      *)
(*                                                                         *)
(* Five specifications share the module:                                   *)
(*   SpecApi      api_request (the retry loop)                             *)
(*   SpecName     safe_filename                                            *)
(*   SpecSession  __init__ (the timestamped session directory)             *)
(*   Spec         export_all and everything it calls                       *)
(*   SpecDash     export_all, dashboards only, on a server with more       *)
(*                dashboards                                               *)
(*                                                                         *)
(* The server's content is fixed when a run starts; which HTTP attempts    *)
(* fail is chosen at each call.  Not modelled: a body response.json()      *)
(* cannot decode, file system errors, search hits without 'uid' or         *)
(* 'title', the tag filter (it only adds a query parameter).               *)
(***************************************************************************)
EXTENDS Integers, Sequences, FiniteSets, TLC

VARIABLES
    \* api_request, called on its own
    apiIn, apiOut, apiPc,
    \* safe_filename, called on its own
    snIn, snOut, snPc,
    \* GrafanaExporter.__init__ over a shared output root
    clock, sessions, fsDirs,
    \* export_all
    pc, opts, srv, folders, dashboards, idx, exported_count,
    files, dirs, requests, written, result, dsOk, alertsOk

apiVars == <<apiIn, apiOut, apiPc>>
nameVars == <<snIn, snOut, snPc>>
sessVars == <<clock, sessions, fsDirs>>
expVars == <<pc, opts, srv, folders, dashboards, idx, exported_count,
             files, dirs, requests, written, result, dsOk, alertsOk>>
vars == <<apiVars, nameVars, sessVars, expVars>>

---------------------------------------------------------------------------
(* Bounds of the model *)

\* largest retries argument api_request is called with in SpecApi
MaxRetries == 4
\* longest name given to safe_filename in SpecName
MaxInputLen == 102
\* longest dashboard list the search returns
MaxDash == 2
\* last clock tick and number of exporters constructed in SpecSession
MaxClock == 5
MaxSessions == 3
\* clock ticks per second of wall time
TicksPerSecond == 2

(* Program constants *)

\* def api_request(..., retries=3)
DefaultRetries == 3
\* if len(safe_name) > 100: safe_name = safe_name[:100]
MaxNameLen == 100

---------------------------------------------------------------------------
(* Python values *)

\* None, and any other value, as api_request returns them
None == [none |-> TRUE]
Some(v) == [none |-> FALSE, value |-> v]
IsNone(r) == r.none

Min(a, b) == IF a < b THEN a ELSE b

---------------------------------------------------------------------------
(* safe_filename *)

\* the character class of re.sub(r'[<>:"/\\|?*]', '_', name)
UnsafeChars == {"<", ">", ":", "\"", "/", "\\", "|", "?", "*"}

\* re.sub replaces every character of the class by '_', one for one
ReSub(name) ==
    [i \in 1..Len(name) |-> IF name[i] \in UnsafeChars THEN "_" ELSE name[i]]

safe_filenameCutsLate(name) ==
    LET safe_name == ReSub(name)
    IN  IF Len(safe_name) > MaxNameLen + 1
        THEN SubSeq(safe_name, 1, MaxNameLen + 1)
        ELSE safe_name

safe_filename(name) ==
    LET safe_name == ReSub(name)
    IN  IF Len(safe_name) > MaxNameLen
        THEN SubSeq(safe_name, 1, MaxNameLen)
        ELSE safe_name

---------------------------------------------------------------------------
(* api_request *)

\* method.upper(), for the methods of the model
Upper(method) ==
    CASE method = "get" -> "GET"
      [] method = "post" -> "POST"
      [] method = "put" -> "PUT"
      [] OTHER -> method

\* What one HTTP attempt can do: the transport raises (ConnectionError,
\* Timeout), raise_for_status raises HTTPError, or response.json() is
\* returned.  The first two are requests.exceptions.RequestException.
IsRequestException(resp) == resp.kind \in {"ConnectionError", "HTTPError"}

BackoffLinear(attempt) == attempt + 1

\* time.sleep(2 ** attempt)
Backoff(attempt) == 2 ^ attempt

IsLastAttemptEarly(attempt, retries) == attempt >= retries - 2

\* if attempt == retries - 1: return None
IsLastAttempt(attempt, retries) == attempt = retries - 1

\* The for loop of api_request from iteration `attempt` on.  responses[i]
\* is what the i-th HTTP attempt does.  The value is what the call does:
\* the value returned, whether an exception leaves the call, the number of
\* HTTP attempts made and the sleeps taken, in order.
RECURSIVE ApiLoop(_, _, _, _, _)
ApiLoop(method, retries, responses, attempt, sleeps) ==
    IF attempt >= retries
    THEN \* the loop ran out: the final return None
         [result |-> None, raised |-> FALSE,
          attempts |-> attempt, sleeps |-> sleeps]
    ELSE IF Upper(method) \notin {"GET", "POST"}
    THEN \* ValueError is no RequestException: it leaves the call
         [result |-> None, raised |-> TRUE,
          attempts |-> attempt, sleeps |-> sleeps]
    ELSE LET resp == responses[attempt + 1]
         IN  IF ~IsRequestException(resp)
             THEN [result |-> Some(resp.body), raised |-> FALSE,
                   attempts |-> attempt + 1, sleeps |-> sleeps]
             ELSE IF IsLastAttempt(attempt, retries)
             THEN [result |-> None, raised |-> FALSE,
                   attempts |-> attempt + 1, sleeps |-> sleeps]
             ELSE ApiLoop(method, retries, responses, attempt + 1,
                          Append(sleeps, Backoff(attempt)))

api_request(method, retries, responses) ==
    ApiLoop(method, retries, responses, 0, <<>>)

Methods == {"GET", "POST", "get", "post", "PUT"}
ApiBodies == {"json1", "json2"}
ApiResponses ==
    {[kind |-> "ConnectionError", body |-> ""],
     [kind |-> "HTTPError", body |-> ""]}
    \cup {[kind |-> "ok", body |-> b] : b \in ApiBodies}

ApiPending == [result |-> None, raised |-> FALSE, attempts |-> 0, sleeps |-> <<>>]

ApiInit ==
    /\ apiIn \in [method : Methods,
                  retries : 0..MaxRetries,
                  responses : [1..MaxRetries -> ApiResponses]]
    /\ apiOut = ApiPending
    /\ apiPc = "call"

ApiIdle ==
    /\ apiIn = [method |-> "GET", retries |-> 0, responses |-> <<>>]
    /\ apiOut = ApiPending
    /\ apiPc = "idle"

ApiRequestCall ==
    /\ apiPc = "call"
    /\ apiOut' = api_request(apiIn.method, apiIn.retries, apiIn.responses)
    /\ apiPc' = "returned"
    /\ UNCHANGED apiIn

---------------------------------------------------------------------------
(* safe_filename on its own *)

\* the characters the names of SpecName are made of
NameAlphabet ==
    <<"a", "<", "b", ">", "_", ":", ".", "\"", " ", "/", "c", "\\", "|",
      "-", "?", "*", "d">>

\* a name of the given length that walks the alphabet from `offset` in
\* steps of `stride`
PatternName(len, stride, offset) ==
    [i \in 1..len |->
        NameAlphabet[((offset + i * stride) % Len(NameAlphabet)) + 1]]

NameInputs ==
    {PatternName(len, stride, offset) :
        len \in 0..MaxInputLen, stride \in {1, 3}, offset \in {0, 5}}

NameInit ==
    /\ snIn \in NameInputs
    /\ snOut = <<>>
    /\ snPc = "call"

NameIdle ==
    /\ snIn = <<>>
    /\ snOut = <<>>
    /\ snPc = "idle"

SafeFilenameCall ==
    /\ snPc = "call"
    /\ snOut' = safe_filename(snIn)
    /\ snPc' = "returned"
    /\ UNCHANGED snIn

---------------------------------------------------------------------------
(* __init__: the session directory *)

OutputRoots == {"grafana-exports", "backups"}

\* datetime.now().strftime("%Y%m%d_%H%M%S"): the clock read to the second
Timestamp(now) == now \div TicksPerSecond

\* self.output_dir / f"export_{timestamp}"
ExportDir(output_dir, now) == [root |-> output_dir, stamp |-> Timestamp(now)]

SessInit ==
    /\ clock = 0
    /\ sessions = <<>>
    /\ fsDirs = {}

SessIdle == SessInit

\* time passes
Tick ==
    /\ clock < MaxClock
    /\ clock' = clock + 1
    /\ UNCHANGED <<sessions, fsDirs>>

\* GrafanaExporter(url, api_key, output_dir): mkdir(parents=True,
\* exist_ok=True) succeeds whether or not the directory is there
NewExporter ==
    /\ Len(sessions) < MaxSessions
    /\ \E output_dir \in OutputRoots :
         LET export_dir == ExportDir(output_dir, clock)
         IN  /\ sessions' = Append(sessions,
                    [output_dir |-> output_dir,
                     started |-> clock,
                     export_dir |-> export_dir,
                     existed |-> export_dir \in fsDirs])
             /\ fsDirs' = fsDirs \cup {export_dir}
    /\ UNCHANGED clock

---------------------------------------------------------------------------
(* The server and the options of one run of export_all *)

Str_General == <<"G", "e", "n", "e", "r", "a", "l">>
Str_Ops == <<"O", "p", "s">>
Str_Nope == <<"N", "o">>
Str_folders_json == <<"f", "o", "l", "d", "e", "r", "s", ".", "j", "s", "o", "n">>
Str_datasources_json ==
    <<"d", "a", "t", "a", "s", "o", "u", "r", "c", "e", "s", ".", "j", "s", "o", "n">>
Str_alerts_json == <<"a", "l", "e", "r", "t", "s", ".", "j", "s", "o", "n">>
Str_export_report_md ==
    <<"e", "x", "p", "o", "r", "t", "_", "r", "e", "p", "o", "r", "t", ".", "m", "d">>
Str_json == <<".", "j", "s", "o", "n">>

\* the folder get_folders inserts (its id, uid and title)
RootFolder == [id |-> 0, uid |-> <<>>, title |-> Str_General]

\* folders the server may hold: ids start at 1 and uids are not empty
OpsFolder == [id |-> 1, uid |-> <<"f", "1">>, title |-> Str_Ops]
GeneralNamedFolder == [id |-> 2, uid |-> <<"f", "2">>, title |-> Str_General]
ServerFolderLists == {<<>>, <<GeneralNamedFolder, OpsFolder>>}

\* The dashboards a server may hold, by uid.  Grafana uids are made of
\* letters, digits, '-' and '_'; titles are free text.
DashTitleOf(uid) ==
    CASE uid = <<"c">> -> <<"a", "/", "b">>
      [] uid = <<"b", "_", "c">> -> <<"a">>
      [] OTHER -> <<"a">>
DashUids == {<<"c">>, <<"b", "_", "c">>, <<"d">>}
FewDashUids == {<<"c">>, <<"d">>}

\* A search hit.  A dashboard of the root folder carries no folderTitle.
DashboardPool(uids) ==
    {[uid |-> u, title |-> DashTitleOf(u), folderId |-> 0,
      hasFolderTitle |-> FALSE, folderTitle |-> <<>>] : u \in uids}
    \cup
    {[uid |-> u, title |-> DashTitleOf(u), folderId |-> 1,
      hasFolderTitle |-> TRUE, folderTitle |-> Str_Ops] : u \in uids}

\* the dashboards of a server: uids are unique, and a dashboard is in a
\* folder the server holds
DashboardLists(serverFolders, uids) ==
    {l \in UNION {[1..n -> DashboardPool(uids)] : n \in 0..MaxDash} :
        /\ \A i, j \in 1..Len(l) : i # j => l[i].uid # l[j].uid
        /\ \A i \in 1..Len(l) :
              l[i].folderId = 0
              \/ \E k \in 1..Len(serverFolders) :
                    serverFolders[k].id = l[i].folderId}

FolderFilters == {<<>>, Str_General, Str_Ops, Str_Nope}

Options ==
    [include_permissions : BOOLEAN,
     include_datasources : BOOLEAN,
     include_alerts : BOOLEAN,
     folder_filter : FolderFilters]

\* the options of a run that exports dashboards only, of every folder
DashboardOnlyOptions ==
    [include_permissions : BOOLEAN,
     include_datasources : {FALSE},
     include_alerts : {FALSE},
     folder_filter : {<<>>}]

\* what the server answers to the fixed paths
UserBodies == {[empty |-> FALSE], [empty |-> TRUE]}
DetailBody(server, uid) ==
    [hasDashboard |-> uid \notin server.noDashboard, uid |-> uid]
PermissionsBody == <<"acl">>

\* GET /api/search?type=dash-db[&folderIds=<id>]: arg is <<>> or <<id>>
SearchBody(server, arg) ==
    IF arg = <<>> THEN server.dashboards
    ELSE LET InFolder(d) == d.folderId = arg[1]
         IN  SelectSeq(server.dashboards, InFolder)

\* The HTTP attempts of one call: the first k fail (the transport and
\* the status taking turns), the others answer.
AttemptsOf(k, body) ==
    [i \in 1..DefaultRetries |->
        IF i <= k
        THEN [kind |-> IF i % 2 = 1 THEN "ConnectionError" ELSE "HTTPError",
              body |-> body]
        ELSE [kind |-> "ok", body |-> body]]

AttemptSeqs(body) == {AttemptsOf(k, body) : k \in 0..DefaultRetries}

\* self.api_request(endpoint): GET with the default retries
Get(attempts) == api_request("GET", DefaultRetries, attempts).result

\* Python truth of what api_request returned: a dict, a list
TruthyDict(r) == ~IsNone(r) /\ ~r.value.empty
TruthyList(r) == ~IsNone(r) /\ r.value # <<>>

Logged(ep, arg, r) == [ep |-> ep, arg |-> arg, failed |-> IsNone(r)]

TopFile(name) == [dir |-> <<>>, name |-> name]

\* f with key k set to v, k in its domain or not
Put(f, k, v) == [x \in DOMAIN f \cup {k} |-> IF x = k THEN v ELSE f[x]]

ExpInit(optionSet, folderLists, uids) ==
    /\ pc = "start"
    /\ opts \in optionSet
    /\ \E sf \in folderLists :
         srv \in [folders : {sf},
                  datasources : {<<>>, <<"ds1">>},
                  alerts : {<<>>, <<"rule1">>},
                  dashboards : DashboardLists(sf, uids),
                  noDashboard : {{}, {<<"c">>}}]
    /\ folders = <<>>
    /\ dashboards = <<>>
    /\ idx = 0
    /\ exported_count = 0
    /\ files = <<>>
    /\ dirs = {}
    /\ requests = <<>>
    /\ written = <<>>
    /\ result = "running"
    /\ dsOk = "skipped"
    /\ alertsOk = "skipped"

ExpIdle ==
    /\ pc = "idle"
    /\ opts = [include_permissions |-> FALSE, include_datasources |-> FALSE,
               include_alerts |-> FALSE, folder_filter |-> <<>>]
    /\ srv = [folders |-> <<>>, datasources |-> <<>>,
              alerts |-> <<>>, dashboards |-> <<>>, noDashboard |-> {}]
    /\ folders = <<>>
    /\ dashboards = <<>>
    /\ idx = 0
    /\ exported_count = 0
    /\ files = <<>>
    /\ dirs = {}
    /\ requests = <<>>
    /\ written = <<>>
    /\ result = "running"
    /\ dsOk = "skipped"
    /\ alertsOk = "skipped"

---------------------------------------------------------------------------
(* export_all, one action for each of its phases *)

Done(res) ==
    /\ pc' = "done"
    /\ result' = res

\* test_connection, and export_all's return False when it fails
TestConnection ==
    /\ pc = "start"
    /\ \E body \in UserBodies : \E attempts \in AttemptSeqs(body) :
         LET user_info == Get(attempts)
         IN  /\ requests' = Append(requests, Logged("/api/user", <<>>, user_info))
             /\ IF TruthyDict(user_info)
                THEN pc' = "folders" /\ UNCHANGED result
                ELSE Done("False")
    /\ UNCHANGED <<opts, srv, folders, dashboards, idx, exported_count,
                   files, dirs, written, dsOk, alertsOk>>

InsertRootLast(list) == Append(list, RootFolder)

\* folders.insert(0, {'id': 0, 'uid': '', 'title': 'General', ...})
InsertRoot(list) == <<RootFolder>> \o list

\* get_folders
GetFolders ==
    /\ pc = "folders"
    /\ \E attempts \in AttemptSeqs(srv.folders) :
         LET got == Get(attempts)
         IN  /\ requests' = Append(requests, Logged("/api/folders", <<>>, got))
             /\ IF ~IsNone(got)
                THEN /\ folders' = InsertRoot(got.value)
                     /\ files' = Put(files, TopFile(Str_folders_json),
                                     [kind |-> "folders", data |-> folders'])
                ELSE /\ folders' = <<>>
                     /\ UNCHANGED files
    /\ pc' = "datasources"
    /\ UNCHANGED <<opts, srv, dashboards, idx, exported_count, dirs, written,
                   result, dsOk, alertsOk>>

AfterOptionalExportChecked(ok, next) == IF ok THEN next ELSE "done"

\* export_all calls export_datasources and export_alerts as statements:
\* what they return is not looked at, and the next phase follows
AfterOptionalExport(ok, next) == next

\* export_datasources, when include_datasources
ExportDatasources ==
    /\ pc = "datasources"
    /\ IF opts.include_datasources
       THEN \E attempts \in AttemptSeqs(srv.datasources) :
              LET datasources == Get(attempts)
                  ok == TruthyList(datasources)
                  next == AfterOptionalExport(ok, "alerts")
              IN  /\ requests' = Append(requests,
                        Logged("/api/datasources", <<>>, datasources))
                  /\ IF ok
                     THEN files' = Put(files, TopFile(Str_datasources_json),
                                       [kind |-> "datasources",
                                        data |-> datasources.value])
                     ELSE UNCHANGED files
                  /\ dsOk' = IF ok THEN "True" ELSE "False"
                  /\ pc' = next
                  /\ result' = IF next = "done" THEN "False" ELSE result
       ELSE /\ pc' = "alerts"
            /\ UNCHANGED <<requests, files, dsOk, result>>
    /\ UNCHANGED <<opts, srv, folders, dashboards, idx, exported_count,
                   dirs, written, alertsOk>>

\* export_alerts, when include_alerts
ExportAlerts ==
    /\ pc = "alerts"
    /\ IF opts.include_alerts
       THEN \E attempts \in AttemptSeqs(srv.alerts) :
              LET alerts == Get(attempts)
                  ok == TruthyList(alerts)
                  next == AfterOptionalExport(ok, "search")
              IN  /\ requests' = Append(requests,
                        Logged("/api/alerts", <<>>, alerts))
                  /\ IF ok
                     THEN files' = Put(files, TopFile(Str_alerts_json),
                                       [kind |-> "alerts", data |-> alerts.value])
                     ELSE UNCHANGED files
                  /\ alertsOk' = IF ok THEN "True" ELSE "False"
                  /\ pc' = next
                  /\ result' = IF next = "done" THEN "False" ELSE result
       ELSE /\ pc' = "search"
            /\ UNCHANGED <<requests, files, alertsOk, result>>
    /\ UNCHANGED <<opts, srv, folders, dashboards, idx, exported_count,
                   dirs, written, dsOk>>

ResolveFolderDefaultsToRoot(list, folder_filter) ==
    LET hits == {i \in 1..Len(list) : list[i].title = folder_filter}
    IN  IF hits = {} THEN <<0>>
        ELSE <<list[CHOOSE i \in hits : \A j \in hits : i <= j].id>>

\* for folder in folders: if folder['title'] == folder_filter: ... break
\* <<>> when no folder has the title, <<id>> of the first that has it
ResolveFolder(list, folder_filter) ==
    LET hits == {i \in 1..Len(list) : list[i].title = folder_filter}
    IN  IF hits = {} THEN <<>>
        ELSE <<list[CHOOSE i \in hits : \A j \in hits : i <= j].id>>

\* the dashboard discovery of export_all: the folder filter, get_dashboards
\* and the return False on an empty list
GetDashboards ==
    /\ pc = "search"
    /\ LET filtered == opts.folder_filter # <<>>
           folder_id == ResolveFolder(folders, opts.folder_filter)
       IN  IF filtered /\ folder_id = <<>>
           THEN /\ Done("False")
                /\ UNCHANGED <<requests, dashboards, idx>>
           ELSE LET arg == IF filtered THEN folder_id ELSE <<>>
                IN  \E attempts \in AttemptSeqs(SearchBody(srv, arg)) :
                      LET got == Get(attempts)
                          list == IF ~IsNone(got) THEN got.value ELSE <<>>
                      IN  /\ requests' = Append(requests,
                                Logged("/api/search", arg, got))
                          /\ dashboards' = list
                          /\ IF list = <<>>
                             THEN Done("False") /\ UNCHANGED idx
                             ELSE /\ pc' = "dashboards"
                                  /\ idx' = 1
                                  /\ UNCHANGED result
    /\ UNCHANGED <<opts, srv, folders, exported_count, files, dirs, written,
                   dsOk, alertsOk>>

\* dashboard_info.get('folderTitle', 'General')
FolderTitleOf(dashboard_info) ==
    IF dashboard_info.hasFolderTitle THEN dashboard_info.folderTitle
    ELSE Str_General

\* folder_dir / f"{safe_title}_{uid}.json"
DashboardFile(dashboard_info) ==
    [dir |-> safe_filename(FolderTitleOf(dashboard_info)),
     name |-> safe_filename(dashboard_info.title) \o <<"_">>
              \o dashboard_info.uid \o Str_json]

\* if dashboard_data and 'dashboard' in dashboard_data
DetailUsable(dashboard_data) ==
    ~IsNone(dashboard_data) /\ dashboard_data.value.hasDashboard

LoopStopsOnFailure(ok, i, n) == IF ok /\ i < n THEN "dashboards" ELSE "report"

\* for i, dashboard in enumerate(dashboards, 1): a failed export does not
\* leave the loop
LoopNext(ok, i, n) == IF i < n THEN "dashboards" ELSE "report"

\* one iteration of export_all's loop: export_dashboard and the tally
ExportDashboard ==
    /\ pc = "dashboards"
    /\ LET dashboard_info == dashboards[idx]
           uid == dashboard_info.uid
           folder_title == FolderTitleOf(dashboard_info)
       IN  /\ dirs' = dirs \cup {safe_filename(folder_title)}
           /\ \E attempts \in AttemptSeqs(DetailBody(srv, uid)) :
                LET dashboard_data == Get(attempts)
                    ok == DetailUsable(dashboard_data)
                    detail == Logged("/api/dashboards/uid", uid, dashboard_data)
                IN  /\ IF ok
                       THEN LET filename == DashboardFile(dashboard_info)
                                export_data == [dashboard |-> uid,
                                                folderTitle |-> folder_title]
                            IN  IF opts.include_permissions
                                THEN \E pattempts \in AttemptSeqs(PermissionsBody) :
                                       LET permissions == Get(pattempts)
                                       IN  /\ requests' =
                                                requests \o
                                                <<detail,
                                                  Logged("/api/dashboards/uid/permissions",
                                                         uid, permissions)>>
                                           /\ files' = Put(files, filename,
                                                [kind |-> "dashboard",
                                                 data |-> export_data,
                                                 permissions |->
                                                    IF TruthyList(permissions)
                                                    THEN permissions.value
                                                    ELSE <<>>])
                                ELSE /\ requests' = Append(requests, detail)
                                     /\ files' = Put(files, filename,
                                            [kind |-> "dashboard",
                                             data |-> export_data,
                                             permissions |-> <<>>])
                       ELSE /\ requests' = Append(requests, detail)
                            /\ UNCHANGED files
                    /\ exported_count' = IF ok THEN exported_count + 1
                                         ELSE exported_count
                    /\ written' = IF ok
                                  THEN Append(written,
                                         [uid |-> uid,
                                          path |-> DashboardFile(dashboard_info)])
                                  ELSE written
                    /\ pc' = LoopNext(ok, idx, Len(dashboards))
    /\ idx' = idx + 1
    /\ UNCHANGED <<opts, srv, folders, dashboards, result, dsOk, alertsOk>>

\* f.name not in ['folders.json', 'datasources.json', 'alerts.json'],
\* among the *.json files under the session directory
DashboardFilesOnDisk(fs) ==
    {f \in DOMAIN fs :
        /\ f.name \notin {Str_folders_json, Str_datasources_json, Str_alerts_json}
        /\ Len(f.name) >= Len(Str_json)
        /\ SubSeq(f.name, Len(f.name) - Len(Str_json) + 1, Len(f.name)) = Str_json}

\* generate_report, and export_all's return True
GenerateReport ==
    /\ pc = "report"
    /\ LET total_count == Len(dashboards)
       IN  files' = Put(files, TopFile(Str_export_report_md),
                [kind |-> "report",
                 folders |-> Len(folders),
                 total |-> total_count,
                 exported |-> exported_count,
                 failed |-> total_count - exported_count,
                 folder_dirs |-> dirs,
                 dashboard_files |-> DashboardFilesOnDisk(files)])
    /\ Done("True")
    /\ UNCHANGED <<opts, srv, folders, dashboards, idx, exported_count,
                   dirs, requests, written, dsOk, alertsOk>>

---------------------------------------------------------------------------
(* The specifications *)

\* api_request called once, on every input of the bounds
ApiNext == ApiRequestCall /\ UNCHANGED <<nameVars, sessVars, expVars>>
ApiSpecInit == ApiInit /\ NameIdle /\ SessIdle /\ ExpIdle
SpecApi == ApiSpecInit /\ [][ApiNext]_vars

\* safe_filename called once, on every name of NameInputs
NameNext == SafeFilenameCall /\ UNCHANGED <<apiVars, sessVars, expVars>>
NameSpecInit == ApiIdle /\ NameInit /\ SessIdle /\ ExpIdle
SpecName == NameSpecInit /\ [][NameNext]_vars

\* exporters constructed over time on shared output roots
SessNext ==
    \/ Tick /\ UNCHANGED <<apiVars, nameVars, expVars>>
    \/ NewExporter /\ UNCHANGED <<apiVars, nameVars, expVars>>
SessSpecInit == ApiIdle /\ NameIdle /\ SessInit /\ ExpIdle
SpecSession == SessSpecInit /\ [][SessNext]_vars

\* one run of export_all against one server
Init ==
    /\ ApiIdle /\ NameIdle /\ SessIdle
    /\ ExpInit(Options, ServerFolderLists, FewDashUids)
Next ==
    \/ TestConnection /\ UNCHANGED <<apiVars, nameVars, sessVars>>
    \/ GetFolders /\ UNCHANGED <<apiVars, nameVars, sessVars>>
    \/ ExportDatasources /\ UNCHANGED <<apiVars, nameVars, sessVars>>
    \/ ExportAlerts /\ UNCHANGED <<apiVars, nameVars, sessVars>>
    \/ GetDashboards /\ UNCHANGED <<apiVars, nameVars, sessVars>>
    \/ ExportDashboard /\ UNCHANGED <<apiVars, nameVars, sessVars>>
    \/ GenerateReport /\ UNCHANGED <<apiVars, nameVars, sessVars>>
Spec == Init /\ [][Next]_vars

\* one dashboards-only run against a server with more dashboards
DashInit ==
    /\ ApiIdle /\ NameIdle /\ SessIdle
    /\ ExpInit(DashboardOnlyOptions, {<<GeneralNamedFolder, OpsFolder>>}, DashUids)
SpecDash == DashInit /\ [][Next]_vars

---------------------------------------------------------------------------
(* Properties of api_request (SpecApi) *)

GetOrPost == apiIn.method \in {"GET", "POST", "get", "post"}

AttemptFails(i) == apiIn.responses[i].kind \in {"ConnectionError", "HTTPError"}

\* the first N-1 attempts fail and the N-th answers
FailsUntilLast ==
    /\ apiIn.retries >= 1
    /\ \A i \in 1..(apiIn.retries - 1) : AttemptFails(i)
    /\ ~AttemptFails(apiIn.retries)

\* all N attempts fail
FailsAlways ==
    /\ apiIn.retries >= 1
    /\ \A i \in 1..apiIn.retries : AttemptFails(i)

\* C1: with N attempts allowed and a GET or POST, when the first N-1
\* attempts fail and the N-th answers, api_request returns the body of the
\* N-th attempt after exactly N attempts, having slept 2^0, 2^1, ...,
\* 2^(N-2) between them.
C1_SucceedsOnLastAttempt ==
    (apiPc = "returned" /\ GetOrPost /\ FailsUntilLast) =>
        /\ ~apiOut.raised
        /\ ~IsNone(apiOut.result)
        /\ apiOut.result.value = apiIn.responses[apiIn.retries].body
        /\ apiOut.attempts = apiIn.retries
        /\ apiOut.sleeps = [i \in 1..(apiIn.retries - 1) |-> 2 ^ (i - 1)]

C1_Witness ==
    /\ apiPc = "returned" /\ GetOrPost /\ FailsUntilLast
    /\ apiIn.retries = MaxRetries
    /\ apiOut.attempts = MaxRetries
    /\ Len(apiOut.sleeps) = MaxRetries - 1
    /\ ~IsNone(apiOut.result)

\* C2: with N attempts allowed and a GET or POST, when all N attempts fail,
\* api_request returns None after exactly N attempts and raises nothing.
C2_ExhaustedReturnsNone ==
    (apiPc = "returned" /\ GetOrPost /\ FailsAlways) =>
        /\ ~apiOut.raised
        /\ IsNone(apiOut.result)
        /\ apiOut.attempts = apiIn.retries

C2_Witness ==
    /\ apiPc = "returned" /\ GetOrPost /\ FailsAlways
    /\ apiIn.retries = DefaultRetries
    /\ IsNone(apiOut.result)
    /\ apiOut.attempts = DefaultRetries

---------------------------------------------------------------------------
(* Properties of safe_filename (SpecName) *)

C10_Disallowed == {"<", ">", ":", "\"", "/", "\\", "|", "?", "*"}

\* C10: the result of safe_filename holds none of < > : " / \ | ? *, is at
\* most 100 characters long, and is the first 100 characters of the title
\* with each disallowed character replaced by '_' and the others kept.
C10_SafeFilename ==
    snPc = "returned" =>
        /\ Len(snOut) <= 100
        /\ Len(snOut) = Min(Len(snIn), 100)
        /\ \A i \in 1..Len(snOut) :
              /\ snOut[i] \notin C10_Disallowed
              /\ snIn[i] \in C10_Disallowed => snOut[i] = "_"
              /\ snIn[i] \notin C10_Disallowed => snOut[i] = snIn[i]

C10_Witness ==
    /\ snPc = "returned"
    /\ Len(snIn) > 100
    /\ Len(snOut) = 100
    /\ \E i \in 1..100 : snIn[i] = "\\" /\ snOut[i] = "_"
    /\ \E i \in 1..100 : snIn[i] = "a" /\ snOut[i] = "a"

---------------------------------------------------------------------------
(* Properties of the session directory (SpecSession) *)

\* C8: two exporters constructed on the same output root, whenever they
\* start, have different session directories, and the later one does not
\* find its directory already there.
C8_SessionsNeverShareDirectory ==
    \A i, j \in 1..Len(sessions) :
        (i < j /\ sessions[i].output_dir = sessions[j].output_dir) =>
            /\ sessions[i].export_dir # sessions[j].export_dir
            /\ ~sessions[j].existed

---------------------------------------------------------------------------
(* Properties of export_all (Spec, SpecDash) *)

HasRequest(ep) == \E i \in 1..Len(requests) : requests[i].ep = ep

FailedRequest(ep) ==
    \E i \in 1..Len(requests) : requests[i].ep = ep /\ requests[i].failed

AnsweredRequest(ep) ==
    \E i \in 1..Len(requests) : requests[i].ep = ep /\ ~requests[i].failed

ReportWritten == TopFile(Str_export_report_md) \in DOMAIN files

\* the uids of the per-dashboard detail requests, in the order issued
DetailUids ==
    LET IsDetail(r) == r.ep = "/api/dashboards/uid"
        detail == SelectSeq(requests, IsDetail)
    IN  [i \in 1..Len(detail) |-> detail[i].arg]

RootCount == Cardinality({i \in 1..Len(folders) : folders[i] = RootFolder})

\* C3, as claimed: once get_folders has returned, whatever the folder API
\* did (a list, an empty list, a list with a folder titled General, a failed
\* request), the folder list holds the root folder exactly once, first.
C3_RootFirstOnceAlways ==
    HasRequest("/api/folders") =>
        /\ folders # <<>>
        /\ folders[1] = RootFolder
        /\ RootCount = 1

\* C3, amended: once get_folders has returned, if the folder request was
\* answered (by any list) the folder list is the root folder followed by
\* the list answered, so it holds the root folder exactly once and first;
\* if the request failed the folder list is empty.
C3_RootFirstOnceWhenAnswered ==
    HasRequest("/api/folders") =>
        IF AnsweredRequest("/api/folders")
        THEN /\ folders # <<>>
             /\ folders[1] = RootFolder
             /\ RootCount = 1
             /\ Tail(folders) = srv.folders
        ELSE folders = <<>>

C3_Witness ==
    /\ AnsweredRequest("/api/folders")
    /\ \E i \in 1..Len(srv.folders) : srv.folders[i].title = Str_General
    /\ Len(folders) = Len(srv.folders) + 1
    /\ folders[1] = RootFolder

\* the fatal conditions of export_all
ConnectionUnavailable == FailedRequest("/api/user")

FilterUnmatched ==
    /\ pc \in {"dashboards", "report", "done"}
    /\ ~ConnectionUnavailable
    /\ HasRequest("/api/folders")
    /\ opts.folder_filter # <<>>
    /\ \A i \in 1..Len(folders) : folders[i].title # opts.folder_filter

SearchEmpty ==
    \E i \in 1..Len(requests) :
        /\ requests[i].ep = "/api/search"
        /\ requests[i].failed \/ SearchBody(srv, requests[i].arg) = <<>>

\* C4: when the connectivity check is unavailable, or a folder filter is
\* given that is the title of no folder of the list, or the dashboard
\* search fails or finds nothing, the run ends with a failure, no
\* per-dashboard detail request has been issued and export_report.md is
\* not written; with the unmatched filter the search is not issued either.
C4_FatalEndsBeforeDashboards ==
    /\ (ConnectionUnavailable \/ FilterUnmatched \/ SearchEmpty) =>
          /\ pc = "done"
          /\ result = "False"
          /\ ~HasRequest("/api/dashboards/uid")
          /\ ~ReportWritten
    /\ ConnectionUnavailable => Len(requests) = 1
    /\ FilterUnmatched => ~HasRequest("/api/search")

C4_Witness ==
    /\ FilterUnmatched
    /\ opts.folder_filter = Str_Nope
    /\ Len(folders) = 3
    /\ srv.dashboards # <<>>
    /\ pc = "done"
    /\ result = "False"

\* the detail requests that api_request gave up on, and those answered
\* without a 'dashboard' entry
DetailUnavailable ==
    Cardinality({i \in 1..Len(requests) :
        requests[i].ep = "/api/dashboards/uid" /\ requests[i].failed})

DetailWithoutDashboard ==
    Cardinality({i \in 1..Len(requests) :
        /\ requests[i].ep = "/api/dashboards/uid"
        /\ ~requests[i].failed
        /\ requests[i].arg \in srv.noDashboard})

RunOverDashboards == pc = "done" /\ dashboards # <<>>

AttemptsEachOnceInOrder ==
    DetailUids = [i \in 1..Len(dashboards) |-> dashboards[i].uid]

ReportTallies ==
    /\ ReportWritten
    /\ files[TopFile(Str_export_report_md)].total = Len(dashboards)
    /\ files[TopFile(Str_export_report_md)].exported = exported_count
    /\ files[TopFile(Str_export_report_md)].failed =
          Len(dashboards) - exported_count

\* C5, as claimed: after a search that found D dashboards the run attempts
\* each once, in order, writes the report and succeeds, and the success
\* count plus the number of dashboards whose detail fetch was unavailable
\* is D.
C5_SuccessPlusUnavailableIsTotal ==
    RunOverDashboards =>
        /\ AttemptsEachOnceInOrder
        /\ result = "True"
        /\ ReportTallies
        /\ exported_count + DetailUnavailable = Len(dashboards)

\* C5, amended: after a search that found D dashboards the run attempts
\* each once, in order, whichever detail fetches fail, writes the report
\* and succeeds; the success count plus the number of dashboards whose
\* detail fetch was unavailable or was answered without a 'dashboard'
\* entry is D, and the report's failure count is D minus the success count.
C5_EveryDashboardAttemptedAndTallied ==
    RunOverDashboards =>
        /\ AttemptsEachOnceInOrder
        /\ result = "True"
        /\ ReportTallies
        /\ exported_count + DetailUnavailable + DetailWithoutDashboard
              = Len(dashboards)

C5_Witness ==
    /\ RunOverDashboards
    /\ Len(dashboards) = MaxDash
    /\ DetailUnavailable >= 1
    /\ requests[Len(requests)].ep = "/api/dashboards/uid"
    /\ ~requests[Len(requests)].failed
    /\ exported_count = MaxDash - 1
    /\ result = "True"
    /\ ReportWritten

FilterResolved ==
    \/ opts.folder_filter = <<>>
    \/ \E i \in 1..Len(folders) : folders[i].title = opts.folder_filter

OptionalExportFailed ==
    FailedRequest("/api/datasources") \/ FailedRequest("/api/alerts")

\* C6: when the datasource or the alert request fails after all retries,
\* the run goes on: the alert export still runs when enabled, the search
\* is issued whenever the filter resolves, every dashboard found is
\* attempted, the report is written, and the result is the one the filter
\* and the search alone decide.
C6_OptionalExportFailureNotFatal ==
    OptionalExportFailed =>
        /\ (FailedRequest("/api/datasources") /\ opts.include_alerts) =>
              (pc = "alerts" \/ HasRequest("/api/alerts"))
        /\ pc = "done" =>
              /\ FilterResolved => HasRequest("/api/search")
              /\ result = IF FilterResolved /\ dashboards # <<>>
                          THEN "True" ELSE "False"
              /\ dashboards # <<>> =>
                    (AttemptsEachOnceInOrder /\ ReportWritten)

C6_Witness ==
    /\ FailedRequest("/api/datasources")
    /\ FailedRequest("/api/alerts")
    /\ pc = "done"
    /\ result = "True"
    /\ Len(dashboards) = 2
    /\ ReportWritten

FilePersists(name, kind, array) ==
    /\ TopFile(name) \in DOMAIN files
    /\ files[TopFile(name)].kind = kind
    /\ files[TopFile(name)].data = array

\* C7: whenever the datasource (the alert) request is answered, the array
\* answered, the empty one included, is in datasources.json (alerts.json)
\* and the export is reported as successful.
C7_AnsweredArrayPersisted ==
    /\ AnsweredRequest("/api/datasources") =>
          /\ FilePersists(Str_datasources_json, "datasources", srv.datasources)
          /\ dsOk = "True"
    /\ AnsweredRequest("/api/alerts") =>
          /\ FilePersists(Str_alerts_json, "alerts", srv.alerts)
          /\ alertsOk = "True"

\* C9: two dashboards exported in one run under different uids are written
\* to different paths, so at the end of the run there are as many dashboard
\* files as successful exports.
C9_DistinctUidsDistinctFiles ==
    /\ \A i, j \in 1..Len(written) :
          written[i].uid # written[j].uid => written[i].path # written[j].path
    /\ pc = "done" =>
          Cardinality(DashboardFilesOnDisk(files)) = exported_count

===========================================================================
